---- MODULE Spec2Model ----
(***************************************************************************)
(* Model of clickhouse-cleaner (src/cleaner/clickhouse_cleaner.py): the    *)
(* argument checks of main, the search -> confirm -> delete -> track       *)
(* workflow of run, and the mutation poll loop of check_mutations.         *)
(*                                                                         *)
(* Strings are sequences of one-character strings.  The Cyrillic letters   *)
(* of the accepted answers are written as the character tokens "cyr_d",    *)
(* "cyr_a" (lower case) and "CYR_D", "CYR_A" (upper case).                 *)
(***************************************************************************)
EXTENDS Integers, Sequences, FiniteSets, TLC

\* ---------------------------------------------------------------- bounds
MaxFetches == 3   \* status fetches modelled inside one check_mutations call
MaxRecords == 1   \* rows of system.mutations returned by one fetch
MaxParts   == 1   \* largest parts_to_do of a mutation row
MaxMatches == 2   \* distinct keys returned by one search

VARIABLES
  args,        \* parsed command line (argparse namespace)
  pc,          \* position in main / run / check_mutations
  pi, ti,      \* 1-based indices of the current prefix and table
  answer,      \* text read by input() for the current pair; gone once the delete is sent
  matched,     \* number of keys get_data found for the current pair; gone likewise
  result,      \* check_mutations: rows of the last successful fetch
  in_progress, total, completed, failed, success,  \* check_mutations locals
  issued,      \* history: I/O operations performed for the current pair
  summaries,   \* history: <<in_progress, failed>> of every successful fetch of the call
  lastError,   \* history: operation whose QueryError was raised for the current pair
  outcome,     \* history: how the most recent pair ended
  donePairs    \* history: number of pairs (tables in checkout mode) that run returned from

vars == <<args, pc, pi, ti, answer, matched, result, in_progress, total, completed,
          failed, success, issued, summaries, lastError, outcome, donePairs>>

\* Python's None / a name not bound yet, kept comparable with the values
\* the name takes later.
NoneInt == 0 - 1
NoneSeq == <<"None">>

\* ------------------------------------------------------------- pure parts

\* str.split(","): never returns an empty list; "" gives [""].
RECURSIVE SplitAcc(_, _, _)
SplitAcc(s, cur, acc) ==
  IF s = <<>> THEN Append(acc, cur)
  ELSE IF Head(s) = "," THEN SplitAcc(Tail(s), <<>>, Append(acc, cur))
  ELSE SplitAcc(Tail(s), Append(cur, Head(s)), acc)

Split(s) == SplitAcc(s, <<>>, <<>>)

prefixes == Split(args.prefix)
tables   == Split(args.table)

\* str.lower() on the characters the model uses.
LowerChar(c) ==
  CASE c = "Y" -> "y"
    [] c = "E" -> "e"
    [] c = "S" -> "s"
    [] c = "N" -> "n"
    [] c = "O" -> "o"
    [] c = "CYR_D" -> "cyr_d"
    [] c = "CYR_A" -> "cyr_a"
    [] OTHER -> c

Lower(s) == [i \in 1..Len(s) |-> LowerChar(s[i])]

AcceptedAnswers ==
  { <<"y">>, <<"y", "e", "s">>, <<"cyr_d", "cyr_a">>, <<"cyr_d">> }

IsAffirmative_m(ans) == Lower(ans) \notin { <<"n">>, <<"n", "o">> }
IsAffirmative(ans) == Lower(ans) \in AcceptedAnswers

\* "\n".join(f"- {path}" for path in result); None when result is empty.
RECURSIVE JoinLines(_)
JoinLines(keys) ==
  IF keys = <<>> THEN <<>>
  ELSE IF Len(keys) = 1 THEN <<"-", " ">> \o keys[1]
  ELSE <<"-", " ">> \o keys[1] \o <<"\n">> \o JoinLines(Tail(keys))

Matches(keys) == IF keys = <<>> THEN NoneSeq ELSE JoinLines(keys)

\* `not matches` in run.
NoMatch(keys) == Matches(keys) = NoneSeq \/ Matches(keys) = <<>>

\* mutation_status
mutation_status(data) ==
  [ in_progress |-> Cardinality({i \in 1..Len(data) : data[i].parts_to_do > 0}),
    total       |-> Len(data),
    completed   |-> Cardinality({i \in 1..Len(data) : data[i].is_done = 1}),
    failed      |-> Cardinality({i \in 1..Len(data) : data[i].latest_failed_part # ""}) ]

\* while in_progress != 0 and failed == 0
LoopCond_m(ip, f) == ip # 0
LoopCond(ip, f) == ip # 0 /\ f = 0

\* execute_sql: `if not r.ok: raise RuntimeError(...)`
Raises(resp) == ~resp.ok

\* except RuntimeError in run (non-force branch) wraps delete_data and check_mutations.
RunCatches_m(op) == op = "delete"
RunCatches(op) == op \in {"delete", "fetch"}

\* main: argument checks, in order; "" when none raises.
ArgError(a) ==
  IF a.table = <<>> THEN "Table required"
  ELSE IF Len(Split(a.prefix)) = 0 /\ ~a.checkout_only THEN "Prefix required"
  ELSE IF (a.force /\ a.checkout_only) \/ (a.await_mutation_end /\ a.force)
       THEN "can't be passed together"
  ELSE ""

\* ------------------------------------------------------- input universes
PrefixArgs == { <<>>, <<"a">>, <<"a", ",", "b">> }
TableArgs  == { <<>>, <<"t">>, <<"t", ",", "u">> }

Args == [ prefix : PrefixArgs, table : TableArgs, force : BOOLEAN,
          checkout_only : BOOLEAN, await_mutation_end : BOOLEAN ]

Answers == { <<"y">>, <<"Y", "E", "S">>, <<"CYR_D", "cyr_a">>, <<"cyr_d">>,
             <<"N">>, <<"n", "o">>, <<>>, <<"y", "y">> }

Keys == { <<>>, <<"a">> }

RECURSIVE SeqsUpTo(_, _)
SeqsUpTo(S, n) ==
  IF n = 0 THEN { <<>> }
  ELSE LET shorter == SeqsUpTo(S, n - 1)
       IN  shorter \cup { Append(q, x) : q \in {s \in shorter : Len(s) = n - 1}, x \in S }

MutationRecord == [ parts_to_do : 0..MaxParts, is_done : {0, 1},
                    latest_failed_part : {"", "p"} ]

\* HTTP responses of the database to a status query / a search / a delete.
StatusResponses ==
  { [ok |-> FALSE, data |-> <<>>] } \cup
  { [ok |-> TRUE, data |-> d] : d \in SeqsUpTo(MutationRecord, MaxRecords) }

SearchResponses ==
  { [ok |-> FALSE, data |-> <<>>] } \cup
  { [ok |-> TRUE, data |-> d] : d \in SeqsUpTo(Keys, MaxMatches) }

DeleteResponses == { [ok |-> FALSE], [ok |-> TRUE] }

\* ----------------------------------------------------------------- state
pairNo == IF args.checkout_only THEN ti ELSE (pi - 1) * Len(tables) + ti

\* await_complete as passed to check_mutations by its two callers
await_complete == IF args.checkout_only THEN FALSE ELSE args.await_mutation_end

Init ==
  /\ args \in Args
  /\ pc = "main"
  /\ pi = 1 /\ ti = 1
  /\ answer = NoneSeq
  /\ matched = NoneInt
  /\ result = NoneSeq
  /\ in_progress = NoneInt /\ total = NoneInt /\ completed = NoneInt
  /\ failed = NoneInt /\ success = NoneInt
  /\ issued = <<>>
  /\ summaries = <<>>
  /\ lastError = "none"
  /\ outcome = "none"
  /\ donePairs = 0

Locals == <<result, in_progress, total, completed, failed, success>>

ClearLocals ==
  /\ result' = NoneSeq
  /\ in_progress' = NoneInt /\ total' = NoneInt /\ completed' = NoneInt
  /\ failed' = NoneInt /\ success' = NoneInt

\* The call for the current pair returned (normally or through a handler):
\* the for loops of main move on.
Advance(how) ==
  /\ outcome' = how
  /\ donePairs' = donePairs + 1
  /\ IF args.checkout_only
     THEN IF ti < Len(tables)
          THEN pc' = "check" /\ ti' = ti + 1 /\ pi' = pi
          ELSE pc' = "done" /\ UNCHANGED <<pi, ti>>
     ELSE IF ti < Len(tables)
          THEN pc' = "run" /\ ti' = ti + 1 /\ pi' = pi
          ELSE IF pi < Len(prefixes)
               THEN pc' = "run" /\ pi' = pi + 1 /\ ti' = 1
               ELSE pc' = "done" /\ UNCHANGED <<pi, ti>>

\* An exception nothing catches: the process ends with a traceback.
Crash(how) ==
  /\ pc' = "crashed"
  /\ outcome' = how
  /\ UNCHANGED <<pi, ti, donePairs>>

\* main up to the loops
Main ==
  /\ pc = "main"
  /\ IF ArgError(args) # ""
     THEN pc' = "argerror"
     ELSE IF args.checkout_only THEN pc' = "check" ELSE pc' = "run"
  /\ UNCHANGED <<args, pi, ti, answer, matched, Locals, issued, summaries,
                 lastError, outcome, donePairs>>

\* run, force branch: delete_data inside try/except/finally, then return
RunForce_m ==
  /\ pc = "run" /\ args.force
  /\ \E resp \in DeleteResponses :
       /\ issued' = <<"search", "delete">>
       /\ lastError' = IF Raises(resp) THEN "delete" ELSE "none"
       /\ Advance(IF Raises(resp) THEN "DeleteFailed" ELSE "ForceDeleted")
  /\ summaries' = <<>>
  /\ answer' = NoneSeq
  /\ matched' = NoneInt
  /\ UNCHANGED <<args, Locals>>

RunForce ==
  /\ pc = "run" /\ args.force
  /\ \E resp \in DeleteResponses :
       /\ issued' = <<"delete">>
       /\ lastError' = IF Raises(resp) THEN "delete" ELSE "none"
       /\ Advance(IF Raises(resp) THEN "DeleteFailed" ELSE "ForceDeleted")
  /\ summaries' = <<>>
  /\ answer' = NoneSeq
  /\ matched' = NoneInt
  /\ UNCHANGED <<args, Locals>>

\* run, non-force: get_data, then `if not matches: return`
RunSearch ==
  /\ pc = "run" /\ ~args.force
  /\ issued' = <<"search">>
  /\ summaries' = <<>>
  /\ answer' = NoneSeq
  /\ \E resp \in SearchResponses :
       IF Raises(resp)
       THEN lastError' = "search" /\ matched' = NoneInt /\ Crash("SearchFailed")
       ELSE /\ lastError' = "none"
            /\ matched' = Len(resp.data)
            /\ IF NoMatch(resp.data)
               THEN Advance("NoMatch")
               ELSE /\ pc' = "confirm"
                    /\ outcome' = "MatchFound"
                    /\ UNCHANGED <<pi, ti, donePairs>>
  /\ UNCHANGED <<args, Locals>>

\* run: input(...).lower() in [...]
Confirm ==
  /\ pc = "confirm"
  /\ \E ans \in Answers :
       /\ answer' = ans
       /\ issued' = Append(issued, "prompt")
       /\ IF IsAffirmative(ans)
          THEN pc' = "delete" /\ UNCHANGED <<pi, ti, donePairs, outcome>>
          ELSE Advance("Cancelled")
  /\ UNCHANGED <<args, matched, Locals, summaries, lastError>>

RunDelete_m ==
  /\ pc = "delete"
  /\ issued' = Append(issued, "delete")
  /\ \E resp \in DeleteResponses :
       /\ lastError' = IF Raises(resp) THEN "delete" ELSE "none"
       /\ pc' = "check"
       /\ outcome' = IF Raises(resp) THEN "DeleteFailed" ELSE "Deleting"
       /\ UNCHANGED <<pi, ti, donePairs>>
  /\ answer' = NoneSeq
  /\ matched' = NoneInt
  /\ UNCHANGED <<args, Locals, summaries>>

\* run: delete_data inside the try of the confirmed branch
RunDelete ==
  /\ pc = "delete"
  /\ issued' = Append(issued, "delete")
  /\ \E resp \in DeleteResponses :
       IF Raises(resp)
       THEN /\ lastError' = "delete"
            /\ IF RunCatches("delete") THEN Advance("DeleteFailed")
               ELSE Crash("DeleteFailed")
       ELSE /\ lastError' = "none"
            /\ pc' = "check"
            /\ outcome' = "Deleting"
            /\ UNCHANGED <<pi, ti, donePairs>>
  /\ answer' = NoneSeq
  /\ matched' = NoneInt
  /\ UNCHANGED <<args, Locals, summaries>>

\* A QueryError out of check_mutations: caught by run's handler after a
\* confirmed delete, by nothing in checkout-only mode.
FetchRaised ==
  /\ lastError' = "fetch"
  /\ ClearLocals
  /\ summaries' = IF pc = "check" THEN <<>> ELSE summaries
  /\ IF ~args.checkout_only /\ RunCatches("fetch")
     THEN Advance("TrackFailed")
     ELSE Crash("TrackFailed")

\* check_mutations: first fetch and the first test of the loop condition
CheckFirst ==
  /\ pc = "check"
  /\ issued' = IF args.checkout_only THEN <<"fetch">> ELSE Append(issued, "fetch")
  /\ \E resp \in StatusResponses :
       IF Raises(resp)
       THEN /\ FetchRaised
       ELSE LET s == mutation_status(resp.data) IN
            /\ result' = resp.data
            /\ in_progress' = s.in_progress /\ total' = s.total
            /\ completed' = s.completed /\ failed' = s.failed
            /\ success' = NoneInt
            /\ summaries' = << <<s.in_progress, s.failed>> >>
            /\ lastError' = "none"
            /\ outcome' = "Tracking"
            /\ pc' = IF await_complete /\ LoopCond(s.in_progress, s.failed)
                     THEN "poll" ELSE "report"
            /\ UNCHANGED <<pi, ti, donePairs>>
  /\ UNCHANGED <<args, answer, matched>>

\* loop body, first half: result = execute_sql(query); ... = mutation_status(result)
Poll ==
  /\ pc = "poll"
  /\ Len(summaries) < MaxFetches
  /\ issued' = Append(issued, "fetch")
  /\ \E resp \in StatusResponses :
       IF Raises(resp)
       THEN /\ FetchRaised
       ELSE LET s == mutation_status(resp.data) IN
            /\ result' = resp.data
            /\ in_progress' = s.in_progress /\ total' = s.total
            /\ success' = s.completed /\ failed' = s.failed
            /\ UNCHANGED completed
            /\ summaries' = Append(summaries, <<s.in_progress, s.failed>>)
            /\ pc' = "sleep"
            /\ UNCHANGED <<pi, ti, donePairs, lastError, outcome>>
  /\ UNCHANGED <<args, answer, matched>>

\* loop body, second half: time.sleep(0.5), then the loop condition again
Sleep ==
  /\ pc = "sleep"
  /\ issued' = Append(issued, "sleep")
  /\ pc' = IF LoopCond(in_progress, failed) THEN "poll" ELSE "report"
  /\ UNCHANGED <<args, pi, ti, answer, matched, Locals, summaries, lastError,
                 outcome, donePairs>>

\* check_mutations: the status printout, then return to the caller
Report ==
  /\ pc = "report"
  /\ ClearLocals
  /\ Advance("Tracked")
  /\ UNCHANGED <<args, answer, matched, issued, summaries, lastError>>

Next ==
  \/ Main
  \/ RunForce
  \/ RunSearch
  \/ Confirm
  \/ RunDelete
  \/ CheckFirst
  \/ Poll
  \/ Sleep
  \/ Report

Spec == Init /\ [][Next]_vars

TypeOK ==
  /\ args \in Args
  /\ pc \in {"main", "argerror", "run", "confirm", "delete", "check", "poll",
             "sleep", "report", "done", "crashed"}
  /\ pi \in 1..Len(prefixes) /\ ti \in 1..Len(tables)

\* ------------------------------------------------------------ properties

Resolved(s) == s[1] = 0 \/ s[2] > 0

Count(seq, x) == Cardinality({i \in 1..Len(seq) : seq[i] = x})

Has(seq, x) == \E i \in 1..Len(seq) : seq[i] = x

\* the step performs operation x
IssuedNow(x) ==
  /\ Len(issued') = Len(issued) + 1
  /\ issued'[Len(issued')] = x

AwaitCall == ~args.checkout_only /\ args.await_mutation_end

\* C1: with await_complete, polling stops exactly at the first fetched
\* summary with in_progress = 0 or failed > 0: no fetch follows a resolved
\* summary, the number of fetches issued is the number of summaries seen,
\* the call ends only on a resolved summary, and while every summary is
\* unresolved the loop is still polling.
C1_StopsAtFirstResolved ==
  AwaitCall =>
    /\ \A i \in 1..(Len(summaries) - 1) : ~Resolved(summaries[i])
    /\ Count(issued, "fetch") =
         Len(summaries) + (IF lastError = "fetch" THEN 1 ELSE 0)
    /\ (pc = "report" \/ outcome = "Tracked") =>
         /\ summaries # <<>>
         /\ Resolved(summaries[Len(summaries)])
    /\ (summaries # <<>> /\ lastError # "fetch"
          /\ \A i \in 1..Len(summaries) : ~Resolved(summaries[i])) =>
         pc \in {"poll", "sleep"}

C1_Witness ==
  /\ AwaitCall
  /\ pc = "report"
  /\ summaries = << <<1, 0>>, <<1, 0>>, <<0, 0>> >>
  /\ Count(issued, "fetch") = 3

\* C2: without force, the prompt is read only after a search that returned
\* at least one key, a delete is issued only after the prompt got an answer
\* whose lower-cased form is an accepted answer, an empty search ends the
\* pair in NoMatch with neither prompt nor delete, and any other answer ends
\* it in Cancelled with no delete.
C2_ConfirmBeforeDelete ==
  /\ [](~args.force =>
          /\ Has(issued, "prompt") =>
               Len(issued) >= 2 /\ issued[1] = "search" /\ issued[2] = "prompt"
          /\ Has(issued, "delete") =>
               Len(issued) >= 3 /\ issued[2] = "prompt" /\ issued[3] = "delete"
          /\ matched = 0 =>
               outcome = "NoMatch" /\ issued = <<"search">>
          /\ (answer # NoneSeq /\ Lower(answer) \notin AcceptedAnswers) =>
               outcome = "Cancelled" /\ issued = <<"search", "prompt">>)
  /\ [][(~args.force /\ IssuedNow("prompt")) =>
          (issued = <<"search">> /\ matched >= 1)]_vars
  /\ [][(~args.force /\ IssuedNow("delete")) =>
          /\ issued = <<"search", "prompt">>
          /\ matched >= 1
          /\ Lower(answer) \in AcceptedAnswers]_vars

C2_Witness ==
  /\ ~args.force
  /\ pc = "delete"
  /\ answer = <<"Y", "E", "S">>
  /\ matched = 1
  /\ issued = <<"search", "prompt">>

\* C3 (as claimed): a QueryError of the search or of the delete statement is
\* caught for that pair and the run does not end with it.
C3_SearchDeleteErrorCaught ==
  lastError \in {"search", "delete"} => pc # "crashed"

\* C4 (as claimed): a QueryError of a mutation-status fetch is caught nowhere
\* and ends the run.
C4_FetchErrorEndsRun ==
  lastError = "fetch" => pc = "crashed"

\* C4 (amended): a QueryError of a mutation-status fetch is never retried;
\* in checkout-only mode nothing catches it, the run ends and no later table
\* is processed; when tracking follows a confirmed delete, run's handler
\* catches it and main goes on with the next pair.
C4_FetchErrorAmended ==
  /\ [](lastError = "fetch" =>
          /\ issued[Len(issued)] = "fetch"
          /\ Count(issued, "fetch") = Len(summaries) + 1
          /\ IF args.checkout_only
             THEN pc = "crashed" /\ donePairs = ti - 1
             ELSE /\ outcome = "TrackFailed"
                  /\ \/ pc = "run" /\ pairNo = donePairs + 1
                     \/ pc = "done" /\ donePairs = Len(prefixes) * Len(tables))
  /\ [][pc = "crashed" => pc' = "crashed"]_vars

C4_Witness ==
  /\ lastError = "fetch"
  /\ ~args.checkout_only
  /\ pc = "run"
  /\ donePairs >= 1
  /\ Len(summaries) >= 1

\* C5 (as claimed): --checkout-only together with --force or with
\* --await-mutation-end fails in main before any statement is sent.
C5_CheckoutExclusive ==
  (args.checkout_only /\ (args.force \/ args.await_mutation_end)) =>
    pc \in {"main", "argerror"} /\ issued = <<>>

\* C6 (as claimed): when the awaiting check_mutations ends, the four fields
\* it holds equal mutation_status of the rows of its last fetch.
C6_SummaryOfLastFetch ==
  (pc = "report" /\ await_complete) =>
    [ in_progress |-> in_progress, total |-> total,
      completed |-> completed, failed |-> failed ] = mutation_status(result)

\* C7: with force, every pair issues the delete statement and nothing else:
\* no search statement and no confirmation prompt.
C7_ForceDeletesWithoutAsking ==
  args.force =>
    /\ ~Has(issued, "search") /\ ~Has(issued, "prompt")
    /\ answer = NoneSeq /\ matched = NoneInt
    /\ donePairs >= 1 => issued = <<"delete">>
    /\ pc = "done" => donePairs = Len(prefixes) * Len(tables)

C7_Witness ==
  /\ args.force
  /\ pc = "done"
  /\ donePairs = 4
  /\ issued = <<"delete">>
  /\ lastError = "none"

\* C8: after a delete statement that failed with a QueryError no
\* mutation-status query is issued for that pair.
C8_NoTrackingAfterFailedDelete ==
  lastError = "delete" =>
    /\ ~Has(issued, "fetch")
    /\ summaries = <<>>
    /\ pc \notin {"check", "poll", "sleep", "report"}
    /\ outcome = "DeleteFailed"

C8_Witness ==
  /\ lastError = "delete"
  /\ ~args.force
  /\ issued = <<"search", "prompt", "delete">>
  /\ pc = "run"

\* C9 (as claimed): in an awaiting call exactly one sleep lies between two
\* consecutive fetches and no sleep follows the last fetch.
C9_SleepBetweenFetches ==
  (AwaitCall /\ lastError = "none") =>
    /\ \A i \in 1..(Len(issued) - 1) :
         issued[i] = "fetch" => issued[i + 1] # "fetch"
    /\ pc = "report" => issued[Len(issued)] = "fetch"

\* C10 (as claimed): without --prefix and without --checkout-only main fails
\* before any statement is sent.
C10_PrefixRequired ==
  (args.prefix = <<>> /\ ~args.checkout_only) =>
    pc \in {"main", "argerror"} /\ issued = <<>>
====
